---- MODULE Spec2Model ----
(***************************************************************************)
(* Weave_B3D (src/commands/Weave_B3D.py): the slice loop of                *)
(* SerpentineCommandExecuteHandler.notify with its offset search and       *)
(* extrusion, the loop assembler get_ordered_curves and the boundary       *)
(* sampler extract_curve_data.                                             *)
(*                                                                         *)
(* Units.  Offsets and half-thicknesses are integers in units of 0.0001    *)
(* (the step added to intern_increase / extern_increase), volumes in units *)
(* of 0.0001, sketch coordinates in units of 0.0025, so that every         *)
(* comparison of the code is an exact integer comparison here.  The CAD    *)
(* kernel (offset, profile classification, extrusion, projection) is an    *)
(* oracle: each call is a nondeterministic choice over its outcomes.       *)
(***************************************************************************)
EXTENDS Integers, Sequences, FiniteSets

VARIABLES
  \* ---- notify: the run ------------------------------------------------
  pc,                    \* position of notify
  total_slices,          \* line 163-172
  slice_count,           \* line 184
  wasCancelled,          \* progress_dialog.wasCancelled, set by the user
  progress_dialog,       \* "none" | "shown" | "hidden"
  ui_message,            \* last message box: "none" | "success" | "warning" | "error"
  extrusion_error_count, \* line 180
  intern_iteration, extern_iteration,   \* lines 285-286
  intern_increase, extern_increase,     \* lines 283-284
  half_wall_thickness,   \* lines 292, 312
  one_error,             \* line 289
  intern_curves, extern_curves,  \* what the reference holds: "None" | "live" | "deleted"
  live,                  \* live intermediate kernel objects of the current slice, by kind
  \* ---- history of the current slice (not program state) -----------------
  searched,              \* the slice reached the offset search
  err_at_slice_start,    \* extrusion_error_count when the slice began
  reentries,             \* times the `while not one_error` body was entered again
  intern_attempts, extern_attempts,  \* offsets attempted for this slice, per direction
  slice_extrusions,      \* extrude features created for this slice
  slice_discards,        \* micro-volume extrusions discarded for this slice
  slice_kept,            \* bodies kept for this slice
  stale_slices,          \* earlier slices that still own live intermediate objects
  \* ---- get_ordered_curves ----------------------------------------------
  apc,                   \* "input" | "ordered"
  profile_curves,        \* profile_loop.profileCurves, in the order the kernel lists them
  ordered_curves_data,   \* the list get_ordered_curves returns
  gap_vertex,            \* the vertex of the loop whose joint is open (0: none)
  \* ---- extract_curve_data ------------------------------------------------
  spc, sample_input, wave_frequency, layer_data,
  \* ---- amplitude clamp and calculate_wave_points_cpu ----------------------
  wpc,                   \* "input" | "clamped" | "displaced"
  input_values,          \* lines 141-145: the dialog's values, lengths in units of 0.01
  max_perimeter,         \* line 214, in units of 0.01
  final_amplitude,       \* line 220, a rational in units of 0.01
  wave_slice_count,      \* the slice_count handed to calculate_wave_points_cpu
  wave_layer_data,       \* the layer_data handed to calculate_wave_points_cpu
  processed_points,      \* its result
  \* ---- observation of one offset attempt (not program state) -------------
  last_outcome           \* what the oracle answered to the latest attempt

runVars == <<pc, total_slices, slice_count, wasCancelled, progress_dialog, ui_message,
             extrusion_error_count, intern_iteration, extern_iteration,
             intern_increase, extern_increase, half_wall_thickness, one_error,
             intern_curves, extern_curves, live,
             searched, err_at_slice_start, reentries, intern_attempts, extern_attempts,
             slice_extrusions, slice_discards, slice_kept, stale_slices>>
asmVars == <<apc, profile_curves, ordered_curves_data, gap_vertex>>
sampVars == <<spc, sample_input, wave_frequency, layer_data>>
waveVars == <<wpc, input_values, max_perimeter, final_amplitude, wave_slice_count,
              wave_layer_data, processed_points>>
obsVars == <<last_outcome>>
vars == <<runVars, asmVars, sampVars, waveVars, obsVars>>

----------------------------------------------------------------------------
(* Program constants *)

max_offset_iterations == 100
OffsetStep == 1
WallThickness == 8000
MicroVolume == 10
connection_tolerance == 4
\* float('inf'): larger than every coordinate and every squared distance
Infinity == 1000000

(* Bounds of the model *)

\* slices of the body (total_slices ranges over 0..MaxSlices)
MaxSlices == 2
\* the oracle accepts an offset only on one of the first EarlyOk attempts of a
\* direction or on its last one (it may reject or fault on any attempt)
EarlyOk == 2
\* the extrusion oracle makes the search start again (wrong profile count, no
\* body, micro volume) at most MaxReentries times in a slice
MaxReentries == 1
\* vertices (and fragments) of a boundary loop
MaxVertices == 3
\* fragments of a sampled chain, their lengths, and the wave_frequency input
\* (the dialog allows 1..200, line 105)
MaxCurves == 3
MaxLength == 3
MaxFrequency == 6
\* samples of a layer handed to the wave displacer, and the slices it is run for
MaxSamples == 2
MaxWaveSlice == 1

----------------------------------------------------------------------------
(* The run: SerpentineCommandExecuteHandler.notify *)

Kinds == {"plane", "sketch", "projected", "general", "spline", "intern", "extern", "feature"}
NoLive == [k \in Kinds |-> 0]
Put(l, k) == [l EXCEPT ![k] = @ + 1]
Drop(l, k) == [l EXCEPT ![k] = @ - 1]

RECURSIVE SumOver(_, _)
SumOver(f, S) == IF S = {} THEN 0
                 ELSE LET k == CHOOSE x \in S : TRUE IN f[k] + SumOver(f, S \ {k})
\* live objects that are not part of an extruded result
Intermediates(l) == SumOver(l, Kinds)

\* all_profiles, as the list of the areas of the regions the oracle reports
Areas == {1, 2}
RegionCounts == {1, 2, 3}
RegionLists == UNION {[1..n -> Areas] : n \in RegionCounts}

\* the oracle's answers the model explores
OracleMayAccept(k) == k <= EarlyOk \/ k = max_offset_iterations

\* an acceptance test that looks at the number of regions only
InternAcceptAnyOrder(all_profiles) == Len(all_profiles) = 2

\* line 299
InternAccept(all_profiles) ==
  Len(all_profiles) = 2 /\ all_profiles[1] < all_profiles[2]
\* line 319
ExternAccept(all_profiles) ==
  Len(all_profiles) = 3 /\ all_profiles[1] < all_profiles[3]

\* lines 302, 308, 322, 328
Perturb(half, iteration, increase) ==
  IF iteration % 2 = 1 THEN half + increase ELSE half - increase

AttemptOutcomes ==
  {[kind |-> "regions", all_profiles |-> r] : r \in RegionLists}
    \cup {[kind |-> "offset_fault", all_profiles |-> << >>],
          [kind |-> "classify_fault", all_profiles |-> << >>]}

RunInit ==
  /\ pc = "start"
  /\ total_slices \in 0..MaxSlices
  /\ slice_count = 0
  /\ wasCancelled = FALSE
  /\ progress_dialog = "none"
  /\ ui_message = "none"
  /\ extrusion_error_count = 0
  /\ intern_iteration = 0 /\ extern_iteration = 0
  /\ intern_increase = 0 /\ extern_increase = 0
  /\ half_wall_thickness = 0
  /\ one_error = FALSE
  /\ intern_curves = "None" /\ extern_curves = "None"
  /\ live = NoLive
  /\ searched = FALSE
  /\ err_at_slice_start = 0
  /\ reentries = 0
  /\ intern_attempts = 0 /\ extern_attempts = 0
  /\ slice_extrusions = 0 /\ slice_discards = 0 /\ slice_kept = 0
  /\ stale_slices = 0

searchVars == <<intern_iteration, extern_iteration, intern_increase, extern_increase,
                half_wall_thickness, one_error, intern_curves, extern_curves>>
histVars == <<searched, err_at_slice_start, reentries, intern_attempts,
              extern_attempts, slice_extrusions,
              slice_discards, slice_kept, stale_slices>>

\* lines 125-184: inputs read, slice count computed, progress dialog shown
ShowProgress ==
  /\ pc = "start"
  /\ \/ /\ progress_dialog' = "shown"
        /\ pc' = "head"
     \/ /\ pc' = "except"          \* a fault before the dialog exists
        /\ UNCHANGED progress_dialog
  /\ UNCHANGED <<total_slices, slice_count, wasCancelled, ui_message,
                 extrusion_error_count, live, searchVars, histVars>>

\* the user presses Cancel in the progress dialog
UserCancel ==
  /\ progress_dialog = "shown"
  /\ ~wasCancelled
  /\ wasCancelled' = TRUE
  /\ UNCHANGED <<pc, total_slices, slice_count, progress_dialog, ui_message,
                 extrusion_error_count, live, searchVars, histVars>>

\* the loop without the test of line 187
LoopHeadIgnoresCancel ==
  /\ pc = "head"
  /\ pc' = IF slice_count < total_slices THEN "create" ELSE "final"
  /\ UNCHANGED <<total_slices, slice_count, wasCancelled, progress_dialog, ui_message,
                 extrusion_error_count, live, searchVars, histVars>>

\* lines 185-187
LoopHead ==
  /\ pc = "head"
  /\ pc' = IF slice_count < total_slices /\ ~wasCancelled THEN "create" ELSE "final"
  /\ UNCHANGED <<total_slices, slice_count, wasCancelled, progress_dialog, ui_message,
                 extrusion_error_count, live, searchVars, histVars>>

\* lines 189-211: construction plane, sketch, projection of the cut edges
CreateSlice ==
  /\ pc = "create"
  /\ stale_slices' = stale_slices + (IF Intermediates(live) > 0 THEN 1 ELSE 0)
  /\ searched' = FALSE
  /\ err_at_slice_start' = extrusion_error_count
  /\ reentries' = 0
  /\ intern_attempts' = 0 /\ extern_attempts' = 0
  /\ slice_extrusions' = 0 /\ slice_discards' = 0 /\ slice_kept' = 0
  /\ \/ /\ live' = Put(Put(Put(NoLive, "plane"), "sketch"), "projected")
        /\ pc' = "profile"         \* slice_sketch.profiles.count > 0
     \/ /\ live' = Put(Put(NoLive, "plane"), "sketch")
        /\ pc' = "advance"         \* empty slice
     \/ /\ live' = Put(Put(NoLive, "plane"), "sketch")
        /\ pc' = "except"          \* projectCutEdges raises
  /\ UNCHANGED <<total_slices, slice_count, wasCancelled, progress_dialog, ui_message,
                 extrusion_error_count, searchVars>>

\* lines 213-289: general offset, ordering, sampling, wave, centre spline,
\* and the initial values of the offset search
BuildCenterline ==
  /\ pc = "profile"
  /\ \/ /\ live' = Put(Drop(live, "projected"), "general")
        /\ pc' = "advance"         \* line 244 or 250: no profile / no curves left
        /\ UNCHANGED <<searchVars, searched>>
     \/ /\ live' = Put(Drop(live, "projected"), "general")
        /\ pc' = "except"          \* ordering, sampling or the spline raises
        /\ UNCHANGED <<searchVars, searched>>
     \/ /\ live' = Put(Drop(live, "projected"), "spline")
        /\ pc' = "advance"         \* line 266: the spline bounds no profile
        /\ UNCHANGED <<searchVars, searched>>
     \/ /\ live' = Put(Drop(live, "projected"), "spline")
        /\ pc' = "intern"
        /\ intern_increase' = 0 /\ extern_increase' = 0
        /\ intern_iteration' = 0 /\ extern_iteration' = 0
        /\ intern_curves' = "None" /\ extern_curves' = "None"
        /\ one_error' = FALSE
        /\ half_wall_thickness' = WallThickness \div 2      \* line 292
        /\ searched' = TRUE
  /\ UNCHANGED <<total_slices, slice_count, wasCancelled, progress_dialog, ui_message,
                 extrusion_error_count, err_at_slice_start, reentries,
                 intern_attempts, extern_attempts,
                 slice_extrusions, slice_discards, slice_kept, stale_slices>>

\* an attempt without its `except:`: the fault reaches line 381
AttemptFaultPropagates(loop_pc) == "except"

\* lines 304-309, 324-329: the `except:` of an attempt keeps the fault in the loop
AttemptFaultTarget(loop_pc) == loop_pc

\* the reference and the live curve sets after a failed attempt:
\* lines 301 / 321 (rejected regions) and 305-307 / 325-327 (fault)
FailedCurves(kind, ref) ==
  IF kind = "offset_fault" THEN (IF ref = "live" THEN "deleted" ELSE ref) ELSE "deleted"
FailedLive(kind, ref, l, k) ==
  IF kind = "offset_fault" /\ ref = "live" THEN Drop(l, k) ELSE l

\* lines 293-309: one attempt of the internal direction
InternAttemptWith(o) ==
  /\ pc = "intern"
  /\ intern_iteration < max_offset_iterations
  /\ LET it == intern_iteration + 1
           inc == intern_increase + OffsetStep
           accepted == o.kind = "regions" /\ InternAccept(o.all_profiles)
       IN
       /\ accepted => OracleMayAccept(it)
       /\ intern_iteration' = it
       /\ intern_increase' = inc
       /\ intern_attempts' = intern_attempts + 1
       /\ IF accepted
            THEN /\ pc' = "extern"
                 /\ half_wall_thickness' = WallThickness \div 2     \* line 312
                 /\ intern_curves' = "live"
                 /\ live' = Put(live, "intern")
            ELSE /\ pc' = IF o.kind = "regions" THEN "intern" ELSE AttemptFaultTarget("intern")
                 /\ half_wall_thickness' = Perturb(half_wall_thickness, it, inc)
                 /\ intern_curves' = FailedCurves(o.kind, intern_curves)
                 /\ live' = FailedLive(o.kind, intern_curves, live, "intern")
  /\ UNCHANGED <<total_slices, slice_count, wasCancelled, progress_dialog, ui_message,
                 extrusion_error_count, extern_iteration, extern_increase,
                 one_error, extern_curves, searched, err_at_slice_start, reentries,
                 extern_attempts, slice_extrusions, slice_discards, slice_kept,
                 stale_slices>>

InternAttempt == \E o \in AttemptOutcomes : InternAttemptWith(o)

\* line 293 false, then line 312
InternExit ==
  /\ pc = "intern"
  /\ ~(intern_iteration < max_offset_iterations)
  /\ pc' = "extern"
  /\ half_wall_thickness' = WallThickness \div 2
  /\ UNCHANGED <<total_slices, slice_count, wasCancelled, progress_dialog, ui_message,
                 extrusion_error_count, live, intern_iteration,
                 extern_iteration, intern_increase, extern_increase, one_error,
                 intern_curves, extern_curves, histVars>>

\* lines 313-329: one attempt of the external direction
ExternAttemptWith(o) ==
  /\ pc = "extern"
  /\ extern_iteration < max_offset_iterations
  /\ LET it == extern_iteration + 1
           inc == extern_increase + OffsetStep
           accepted == o.kind = "regions" /\ ExternAccept(o.all_profiles)
       IN
       /\ accepted => OracleMayAccept(it)
       /\ extern_iteration' = it
       /\ extern_increase' = inc
       /\ extern_attempts' = extern_attempts + 1
       /\ IF accepted
            THEN /\ pc' = "check"
                 /\ UNCHANGED half_wall_thickness
                 /\ extern_curves' = "live"
                 /\ live' = Put(live, "extern")
            ELSE /\ pc' = IF o.kind = "regions" THEN "extern" ELSE AttemptFaultTarget("extern")
                 /\ half_wall_thickness' = Perturb(half_wall_thickness, it, inc)
                 /\ extern_curves' = FailedCurves(o.kind, extern_curves)
                 /\ live' = FailedLive(o.kind, extern_curves, live, "extern")
  /\ UNCHANGED <<total_slices, slice_count, wasCancelled, progress_dialog, ui_message,
                 extrusion_error_count, intern_iteration, intern_increase,
                 one_error, intern_curves, searched, err_at_slice_start, reentries,
                 intern_attempts, slice_extrusions, slice_discards, slice_kept,
                 stale_slices>>

ExternAttempt == \E o \in AttemptOutcomes : ExternAttemptWith(o)

\* line 313 false
ExternExit ==
  /\ pc = "extern"
  /\ ~(extern_iteration < max_offset_iterations)
  /\ pc' = "check"
  /\ UNCHANGED <<total_slices, slice_count, wasCancelled, progress_dialog, ui_message,
                 extrusion_error_count, live, searchVars, histVars>>

\* line 331
IterationsExhausted(i, e) == i = max_offset_iterations \/ e = max_offset_iterations
\* one increment per exhausted direction
ErrorsCountedPerDirection(i, e) ==
  (IF i = max_offset_iterations THEN 1 ELSE 0) + (IF e = max_offset_iterations THEN 1 ELSE 0)

\* line 333
ErrorsCounted(i, e) == IF IterationsExhausted(i, e) THEN 1 ELSE 0

\* lines 331-335
CheckIterations ==
  /\ pc = "check"
  /\ one_error' = IterationsExhausted(intern_iteration, extern_iteration)
  /\ extrusion_error_count' =
       extrusion_error_count + ErrorsCounted(intern_iteration, extern_iteration)
  /\ pc' = IF one_error' THEN "advance" ELSE "extrude"
  /\ UNCHANGED <<total_slices, slice_count, wasCancelled, progress_dialog, ui_message,
                 live, intern_iteration, extern_iteration, intern_increase,
                 extern_increase, half_wall_thickness, intern_curves, extern_curves,
                 histVars>>

\* volumes the extrusion oracle reports
Volumes == {0, MicroVolume - 1, MicroVolume, MicroVolume + 1}

\* line 353
IsMicroVolume(extrude_volumen) == extrude_volumen < MicroVolume

\* the counters initialised inside the `while not one_error` body
ReentryIterationsReset(i, e) == <<0, 0>>

\* the iteration counters with which the `while not one_error` body runs again:
\* lines 283-286 are outside the loop, so they are kept
ReentryIterations(i, e) == <<i, e>>

\* `continue` (line 338) or the end of the loop body: the test of line 291 and
\* line 292
Reenter ==
  /\ reentries < MaxReentries
  /\ reentries' = reentries + 1
  /\ pc' = "intern"
  /\ half_wall_thickness' = WallThickness \div 2
  /\ intern_iteration' = ReentryIterations(intern_iteration, extern_iteration)[1]
  /\ extern_iteration' = ReentryIterations(intern_iteration, extern_iteration)[2]
  /\ intern_increase' = intern_iteration' * OffsetStep
  /\ extern_increase' = extern_iteration' * OffsetStep

stayVars == <<half_wall_thickness, reentries, intern_iteration, extern_iteration,
              intern_increase, extern_increase>>

\* lines 337-362
Extrude ==
  /\ pc = "extrude"
  /\ \/ /\ Reenter                   \* line 338: len(all_profiles) != 3, continue
        /\ UNCHANGED <<extrusion_error_count, live, intern_curves,
                       extern_curves, slice_extrusions, slice_discards, slice_kept>>
     \/ /\ pc' = "advance"           \* extrudes.add raises: lines 360-362
        /\ extrusion_error_count' = extrusion_error_count + 1
        /\ UNCHANGED <<stayVars, live, intern_curves, extern_curves,
                       slice_extrusions, slice_discards, slice_kept>>
     \/ /\ pc' = "advance"           \* the volume query raises: lines 360-362
        /\ extrusion_error_count' = extrusion_error_count + 1
        /\ slice_extrusions' = slice_extrusions + 1
        /\ slice_kept' = slice_kept + 1
        /\ UNCHANGED <<stayVars, live, intern_curves, extern_curves, slice_discards>>
     \/ /\ Reenter                   \* line 351 false: no body, the loop runs again
        /\ live' = Put(live, "feature")
        /\ slice_extrusions' = slice_extrusions + 1
        /\ UNCHANGED <<extrusion_error_count, intern_curves,
                       extern_curves, slice_discards, slice_kept>>
     \/ \E extrude_volumen \in Volumes :
          /\ slice_extrusions' = slice_extrusions + 1
          /\ IF IsMicroVolume(extrude_volumen)
               THEN /\ Reenter       \* lines 355-357, the loop runs again
                    /\ live' = Drop(Drop(live, "intern"), "extern")
                    /\ intern_curves' = "deleted" /\ extern_curves' = "deleted"
                    /\ slice_discards' = slice_discards + 1
                    /\ UNCHANGED slice_kept
               ELSE /\ pc' = "advance"   \* line 359
                    /\ slice_kept' = slice_kept + 1
                    /\ UNCHANGED <<stayVars, live, intern_curves, extern_curves,
                                   slice_discards>>
          /\ UNCHANGED extrusion_error_count
  /\ UNCHANGED <<total_slices, slice_count, wasCancelled, progress_dialog, ui_message,
                 one_error, searched, err_at_slice_start, intern_attempts,
                 extern_attempts, stale_slices>>

\* lines 363-373 (the break of line 372 leaves the loop where line 185 would)
Advance ==
  /\ pc = "advance"
  /\ slice_count' = slice_count + 1
  /\ pc' = "head"
  /\ UNCHANGED <<total_slices, wasCancelled, progress_dialog, ui_message,
                 extrusion_error_count, live, searchVars, histVars>>

\* lines 375-380
Finalize ==
  /\ pc = "final"
  /\ progress_dialog' = "hidden"
  /\ ui_message' = IF extrusion_error_count = 0 THEN "success" ELSE "warning"
  /\ pc' = "done"
  /\ UNCHANGED <<total_slices, slice_count, wasCancelled, extrusion_error_count,
                 live, searchVars, histVars>>

\* a handler that reports the fault and leaves the progress dialog as it is
ExceptHandlerLeavesDialog ==
  /\ pc = "except"
  /\ ui_message' = "error"
  /\ pc' = "done"
  /\ UNCHANGED <<total_slices, slice_count, wasCancelled, extrusion_error_count,
                 progress_dialog, live, searchVars, histVars>>

\* lines 381-385
ExceptHandler ==
  /\ pc = "except"
  /\ ui_message' = "error"
  /\ progress_dialog' = IF progress_dialog = "none" THEN "none" ELSE "hidden"
  /\ pc' = "done"
  /\ UNCHANGED <<total_slices, slice_count, wasCancelled, extrusion_error_count,
                 live, searchVars, histVars>>

----------------------------------------------------------------------------
(* LoopAssembler: get_ordered_curves *)

\* A curve is [id, s, e, sv, ev]: startSketchPoint.geometry, endSketchPoint.geometry
\* as <<x, y>>, and the vertices of the loop its two ends belong to.

Abs(x) == IF x < 0 THEN 0 - x ELSE x
\* Point3D.distanceTo, squared (all points of a sketch share z)
Dist2(p, q) == (p[1] - q[1]) * (p[1] - q[1]) + (p[2] - q[2]) * (p[2] - q[2])
RemoveAt(seq, i) == SubSeq(seq, 1, i - 1) \o SubSeq(seq, i + 1, Len(seq))

\* lines 466-472: one endpoint of the scan for the start curve
ScanPoint(st, point, curve_index) ==
  IF point[2] < st.min_y - connection_tolerance
    THEN [min_y |-> point[2], min_x |-> point[1], start_curve |-> curve_index]
    ELSE IF Abs(point[2] - st.min_y) < connection_tolerance /\ point[1] < st.min_x
      THEN [st EXCEPT !.min_x = point[1], !.start_curve = curve_index]
      ELSE st

\* lines 459-472
RECURSIVE ScanCurves(_, _, _)
ScanCurves(curves, i, st) ==
  IF i > Len(curves) THEN st
  ELSE ScanCurves(curves, i + 1,
                  ScanPoint(ScanPoint(st, curves[i].s, i), curves[i].e, i))

\* a chain that takes the first remaining curve by its start point
BestMatchFirst(remaining, last_end_point, i, best) ==
  [min_dist |-> Dist2(remaining[1].s, last_end_point), index |-> 1, is_reversed |-> FALSE]

\* lines 492-509: the remaining curve with the endpoint nearest to last_end_point
RECURSIVE BestMatch(_, _, _, _)
BestMatch(remaining, last_end_point, i, best) ==
  IF i > Len(remaining) THEN best
  ELSE LET dist_to_start == Dist2(remaining[i].s, last_end_point)
           dist_to_end == Dist2(remaining[i].e, last_end_point)
           b1 == IF dist_to_start < best.min_dist
                   THEN [min_dist |-> dist_to_start, index |-> i, is_reversed |-> FALSE]
                   ELSE best
           b2 == IF dist_to_end < b1.min_dist
                   THEN [min_dist |-> dist_to_end, index |-> i, is_reversed |-> TRUE]
                   ELSE b1
       IN BestMatch(remaining, last_end_point, i + 1, b2)

\* a chain that appends the nearest curve however far it is
ConnectedAlways(best) == best.index # 0

\* line 512
Connected(best) ==
  best.index # 0 /\ best.min_dist < connection_tolerance * connection_tolerance

\* lines 491-525
RECURSIVE Chain(_, _, _)
Chain(remaining, ordered, last_end_point) ==
  IF remaining = << >> THEN ordered
  ELSE LET best == BestMatch(remaining, last_end_point, 1,
                             [min_dist |-> Infinity, index |-> 0, is_reversed |-> FALSE])
       IN IF Connected(best)
            THEN LET best_match_curve == remaining[best.index]
                 IN Chain(RemoveAt(remaining, best.index),
                          Append(ordered, [curve |-> best_match_curve,
                                           is_reversed |-> best.is_reversed]),
                          IF best.is_reversed THEN best_match_curve.s
                                              ELSE best_match_curve.e)
            ELSE ordered

\* lines 445-527
GetOrderedCurves(curves) ==
  IF Len(curves) = 0 THEN << >>
  ELSE IF Len(curves) = 1 THEN <<[curve |-> curves[1], is_reversed |-> FALSE]>>
  ELSE LET st == ScanCurves(curves, 1,
                            [min_y |-> Infinity, min_x |-> Infinity, start_curve |-> 0])
           start_index == IF st.start_curve = 0 THEN 1 ELSE st.start_curve
           start_curve == curves[start_index]
           forward == /\ Abs(start_curve.s[2] - st.min_y) < connection_tolerance
                      /\ Abs(start_curve.s[1] - st.min_x) < connection_tolerance
       IN Chain(RemoveAt(curves, start_index),
                <<[curve |-> start_curve, is_reversed |-> ~forward]>>,
                IF forward THEN start_curve.e ELSE start_curve.s)

\* ---- the loops the model assembles -------------------------------------
\* Vertex k of a loop lies at x = VertexSpacing * (k - 1); its y is one of
\* VertexYs, which holds values closer together than the tolerance.  Fragment k
\* joins vertex k to vertex k + 1 (the last one closes the loop).  With
\* gap_vertex = g > 0 the end of the fragment that arrives at vertex g is
\* moved away from the vertex by more than the tolerance.  A triangle may have
\* a short edge: vertex 3 right above or below vertex 2, possibly nearer than
\* the tolerance.
VertexSpacing == 10
VertexYs == {0, 2, 5}
GapSize == connection_tolerance + 1

VertexPoint(k, ys, short) ==
  <<VertexSpacing * (IF short /\ k >= 3 THEN k - 2 ELSE k - 1), ys[k]>>
NextVertex(k, n) == IF k = n THEN 1 ELSE k + 1

\* fragment k of an n-vertex loop, in its natural direction or flipped
Fragment(k, n, ys, flip, gap, short) ==
  LET a == VertexPoint(k, ys, short)
      t == NextVertex(k, n)
      b0 == VertexPoint(t, ys, short)
      b == IF gap = t THEN <<b0[1], b0[2] + GapSize>> ELSE b0
  IN IF flip THEN [id |-> k, s |-> b, e |-> a, sv |-> t, ev |-> k]
             ELSE [id |-> k, s |-> a, e |-> b, sv |-> k, ev |-> t]

Perms(n) == {f \in [1..n -> 1..n] : \A i, j \in 1..n : f[i] = f[j] => i = j}
Permute(seq, f) == [i \in 1..Len(seq) |-> seq[f[i]]]

AsmInit ==
  /\ apc = "input"
  /\ ordered_curves_data = << >>
  /\ \E n \in 1..MaxVertices :
       \E ys \in [1..n -> VertexYs], flips \in [1..n -> BOOLEAN], f \in Perms(n),
          short \in (IF n = 3 THEN BOOLEAN ELSE {FALSE}) :
         /\ short => ys[2] # ys[3]
         /\ gap_vertex \in (IF n = 3 /\ ~short THEN 0..n ELSE {0})
         /\ profile_curves =
              Permute([k \in 1..n |-> Fragment(k, n, ys, flips[k], gap_vertex, short)], f)

\* the call of line 249
Assemble ==
  /\ apc = "input"
  /\ ordered_curves_data' = GetOrderedCurves(profile_curves)
  /\ apc' = "ordered"
  /\ UNCHANGED <<profile_curves, gap_vertex>>

RunIdle ==
  /\ pc = "idle" /\ total_slices = 0 /\ slice_count = 0 /\ wasCancelled = FALSE
  /\ progress_dialog = "none" /\ ui_message = "none" /\ extrusion_error_count = 0
  /\ intern_iteration = 0 /\ extern_iteration = 0
  /\ intern_increase = 0 /\ extern_increase = 0
  /\ half_wall_thickness = 0 /\ one_error = FALSE
  /\ intern_curves = "None" /\ extern_curves = "None"
  /\ live = NoLive /\ searched = FALSE /\ err_at_slice_start = 0 /\ reentries = 0
  /\ intern_attempts = 0 /\ extern_attempts = 0
  /\ slice_extrusions = 0 /\ slice_discards = 0 /\ slice_kept = 0 /\ stale_slices = 0

AsmIdle ==
  apc = "idle" /\ profile_curves = << >> /\ ordered_curves_data = << >> /\ gap_vertex = 0
----------------------------------------------------------------------------
(* BoundarySampler: extract_curve_data *)

\* An entry of sample_input is [length, is_reversed, isValid]: the curve's
\* length (a positive integer), the traversal flag of get_ordered_curves and
\* the kernel's isValid.  Positions along the perimeter are exact rationals
\* <<numerator, denominator>> with a positive denominator.

Max(a, b) == IF a > b THEN a ELSE b
RatLess(p, q) == p[1] * q[2] < q[1] * p[2]
RatEq(p, q) == p[1] * q[2] = q[1] * p[2]

\* line 547
RECURSIVE TotalPerimeter(_)
TotalPerimeter(ordered) ==
  IF ordered = << >> THEN 0
  ELSE Head(ordered).length + TotalPerimeter(Tail(ordered))

\* line 561
NumPoints(curve_length, total_perimeter, frequency) ==
  Max(2, (curve_length * frequency * 3) \div total_perimeter)

\* a sampler that keeps the last point of every curve
PointsToSampleAll(num_points, is_last_curve_in_loop) == num_points

\* lines 565-570
PointsToSample(num_points, is_last_curve_in_loop) ==
  LET n == IF is_last_curve_in_loop THEN num_points ELSE num_points - 1
  IN IF n < 1 THEN 1 ELSE n

\* lines 573-597: the samples of one curve; i counts from 0 as in the code
CurveSamples(data, curve_index, num_ordered_curves, total_perimeter, frequency, cumulative_length) ==
  LET num_points == NumPoints(data.length, total_perimeter, frequency)
      points_to_sample ==
        PointsToSample(num_points, curve_index = num_ordered_curves - 1)
      denominator == IF num_points > 1 THEN num_points - 1 ELSE 1
  IN [n \in 1..points_to_sample |->
        LET i == n - 1
            fraction == IF num_points > 1 THEN <<i, denominator>> ELSE <<0, 1>>
        IN [curve_index |-> curve_index,
            fraction |-> fraction,
            dist_from_start |->
              IF data.is_reversed
                THEN <<(fraction[2] - fraction[1]) * data.length, fraction[2]>>
                ELSE <<fraction[1] * data.length, fraction[2]>>,
            perimeter_pos |->
              <<cumulative_length * fraction[2] + fraction[1] * data.length,
                fraction[2]>>]]

\* lines 550-598; curve_index counts from 0 as enumerate does
RECURSIVE SampleFrom(_, _, _, _, _, _)
SampleFrom(ordered, curve_index, total_perimeter, frequency, cumulative_length, points_and_normals) ==
  IF curve_index >= Len(ordered) THEN points_and_normals
  ELSE LET data == ordered[curve_index + 1]
       IN IF ~data.isValid
            THEN SampleFrom(ordered, curve_index + 1, total_perimeter, frequency,
                            cumulative_length, points_and_normals)
            ELSE SampleFrom(ordered, curve_index + 1, total_perimeter, frequency,
                            cumulative_length + data.length,
                            points_and_normals \o
                              CurveSamples(data, curve_index, Len(ordered),
                                           total_perimeter, frequency,
                                           cumulative_length))

\* lines 545-609
ExtractCurveData(ordered, frequency) ==
  LET total_perimeter == TotalPerimeter(ordered)
  IN [total_perimeter |-> total_perimeter,
      geometry |-> SampleFrom(ordered, 0, total_perimeter, frequency, 0, << >>)]

SampInit ==
  /\ spc = "input"
  /\ layer_data = << >>
  /\ wave_frequency \in 1..MaxFrequency
  /\ \E n \in 1..MaxCurves :
       sample_input \in [1..n -> [length : 1..MaxLength,
                                  is_reversed : BOOLEAN,
                                  isValid : BOOLEAN]]

\* the call of line 251
Sample ==
  /\ spc = "input"
  /\ layer_data' = ExtractCurveData(sample_input, wave_frequency)
  /\ spc' = "sampled"
  /\ UNCHANGED <<sample_input, wave_frequency>>

SampIdle ==
  spc = "idle" /\ sample_input = << >> /\ wave_frequency = 0 /\ layer_data = << >>

----------------------------------------------------------------------------
(* The amplitude clamp (notify, lines 216-220) and the wave displacer         *)
(* calculate_wave_points_cpu.  Lengths are integers in units of 0.01 (the    *)
(* step of the dialog's spinners); computed values are exact rationals.      *)

RatLeq(p, q) == p[1] * q[2] <= q[1] * p[2]
RatMin(p, q) == IF RatLess(q, p) THEN q ELSE p
RatAbs(p) == <<Abs(p[1]), p[2]>>
RatAdd(p, q) ==
  IF p[2] = q[2] THEN <<p[1] + q[1], p[2]>>
  ELSE <<p[1] * q[2] + q[1] * p[2], p[2] * q[2]>>
RECURSIVE Gcd(_, _)
Gcd(a, b) == IF b = 0 THEN a ELSE Gcd(b, a % b)
\* the same rational in lowest terms
RatNorm(p) ==
  LET g == Gcd(Abs(p[1]), p[2]) IN <<p[1] \div g, p[2] \div g>>

\* the clamp without the wall thickness: 75% of half the wavelength
MaxAllowedAmplitudeOfHalfWave(perimeter, frequency, wall_thickness) ==
  RatNorm(<<3 * perimeter, 8 * frequency>>)

\* lines 218-219: ((max_perimeter / wave_frequency) / 2 - wall_thickness) * 0.75
MaxAllowedAmplitude(perimeter, frequency, wall_thickness) ==
  RatNorm(<<3 * (perimeter - 2 * frequency * wall_thickness), 8 * frequency>>)

\* line 220
FinalAmplitude(perimeter, frequency, wall_thickness, wave_amplitude) ==
  RatMin(<<wave_amplitude, 1>>, MaxAllowedAmplitude(perimeter, frequency, wall_thickness))

\* line 148
wave_sharpness == 1

\* math.tanh(wave_sharpness * math.sin(phase)) in thousandths, for a phase of
\* k twelfths of a turn: sin is 0, 1/2, 0.866, 1, ... and tanh of it 0, 0.462,
\* 0.700, 0.762, ...
TanhSin1000 ==
  <<0, 462, 700, 762, 700, 462, 0, 0 - 462, 0 - 700, 0 - 762, 0 - 700, 0 - 462>>

\* lines 402-403 and 409, in twelfths of a turn: perimeter_pos / total_perimeter
\* * wave_frequency turns plus slice_count * phase_shift_degrees / 360 turns
PhaseTwelfths(perimeter_pos, total_perimeter, frequency, slice, phase_shift_degrees) ==
  ((12 * perimeter_pos * frequency) \div total_perimeter
     + (slice * phase_shift_degrees) \div 30) % 12

\* line 412, as a rational
Displacement(amplitude, twelfths) ==
  RatNorm(<<amplitude[1] * TanhSin1000[twelfths + 1], amplitude[2] * 1000>>)

\* lines 418-422: each coordinate a rational
NewPoint(point, normal, displacement) ==
  [c \in 1..2 |-> <<point[c] * displacement[2] + normal[c] * displacement[1],
                    displacement[2]>>]

\* lines 399-427
CalculateWavePointsCpu(slice, layer, amplitude, frequency, phase_shift_degrees) ==
  [n \in 1..Len(layer.geometry) |->
     LET item == layer.geometry[n]
     IN NewPoint(item.point, item.normal,
                 Displacement(amplitude,
                              PhaseTwelfths(item.perimeter_pos, layer.total_perimeter,
                                            frequency, slice, phase_shift_degrees)))]

\* the inputs the model draws: a perimeter of 1, 10 or 100 length units, and
\* values of the dialog's ranges (lines 105-109)
Perimeters == {100, 1000, 10000}
Frequencies == {1, 10, 40, 200}
WallThicknesses == {0, 80, 320}
Amplitudes == {0, 200, 1000}
PhaseShifts == {0, 90, 180}
\* a layer of total_perimeter 12 sampled at increasing positions, with unit
\* normals along the axes
WavePositions == {0, 1, 3, 7}
UnitNormals == {<<1, 0>>, <<0, 0 - 1>>}
WaveLayers ==
  UNION {{[total_perimeter |-> 12,
           geometry |-> [i \in 1..n |-> [point |-> <<100 * i, 50>>,
                                         normal |-> nrm[i],
                                         perimeter_pos |-> pos[i]]]] :
            nrm \in [1..n -> UnitNormals],
            pos \in {q \in [1..n -> WavePositions] :
                       \A i, j \in 1..n : i < j => q[i] < q[j]}} :
         n \in 1..MaxSamples}

WaveInit ==
  /\ wpc = "input"
  /\ input_values \in [wave_frequency : Frequencies, wall_thickness : WallThicknesses,
                       wave_amplitude : Amplitudes, phase_shift : PhaseShifts]
  /\ max_perimeter \in Perimeters
  /\ final_amplitude = <<0, 1>>
  /\ wave_slice_count \in 0..MaxWaveSlice
  /\ wave_layer_data \in WaveLayers
  /\ processed_points = << >>

\* lines 214-220
ClampAmplitude ==
  /\ wpc = "input"
  /\ final_amplitude' = FinalAmplitude(max_perimeter, input_values.wave_frequency,
                                       input_values.wall_thickness,
                                       input_values.wave_amplitude)
  /\ wpc' = "clamped"
  /\ UNCHANGED <<input_values, max_perimeter, wave_slice_count, wave_layer_data,
                 processed_points>>

\* the call of line 252
CalculateWavePoints ==
  /\ wpc = "clamped"
  /\ processed_points' =
       CalculateWavePointsCpu(wave_slice_count, wave_layer_data, final_amplitude,
                              input_values.wave_frequency, input_values.phase_shift)
  /\ wpc' = "displaced"
  /\ UNCHANGED <<input_values, max_perimeter, final_amplitude, wave_slice_count,
                 wave_layer_data>>

WaveIdle ==
  /\ wpc = "idle" /\ input_values = << >> /\ max_perimeter = 0
  /\ final_amplitude = <<0, 1>> /\ wave_slice_count = 0
  /\ wave_layer_data = << >> /\ processed_points = << >>

NoOutcome == [kind |-> "none", all_profiles |-> << >>]
ObsIdle == last_outcome = NoOutcome

\* the state in which slice 0 of a one-slice run enters the offset search
\* (after line 289)
SearchStart ==
  /\ pc = "intern" /\ total_slices = 1 /\ slice_count = 0 /\ wasCancelled = FALSE
  /\ progress_dialog = "shown" /\ ui_message = "none" /\ extrusion_error_count = 0
  /\ intern_iteration = 0 /\ extern_iteration = 0
  /\ intern_increase = 0 /\ extern_increase = 0
  /\ half_wall_thickness = WallThickness \div 2 /\ one_error = FALSE
  /\ intern_curves = "None" /\ extern_curves = "None"
  /\ live = Put(Put(Put(NoLive, "plane"), "sketch"), "spline")
  /\ searched = TRUE /\ err_at_slice_start = 0 /\ reentries = 0
  /\ intern_attempts = 0 /\ extern_attempts = 0
  /\ slice_extrusions = 0 /\ slice_discards = 0 /\ slice_kept = 0 /\ stale_slices = 0

Init == RunInit /\ AsmIdle /\ SampIdle /\ WaveIdle /\ ObsIdle

Next ==
  \/ ShowProgress /\ UNCHANGED <<asmVars, sampVars, waveVars, obsVars>>
  \/ UserCancel /\ UNCHANGED <<asmVars, sampVars, waveVars, obsVars>>
  \/ LoopHead /\ UNCHANGED <<asmVars, sampVars, waveVars, obsVars>>
  \/ CreateSlice /\ UNCHANGED <<asmVars, sampVars, waveVars, obsVars>>
  \/ BuildCenterline /\ UNCHANGED <<asmVars, sampVars, waveVars, obsVars>>
  \/ InternAttempt /\ UNCHANGED <<asmVars, sampVars, waveVars, obsVars>>
  \/ InternExit /\ UNCHANGED <<asmVars, sampVars, waveVars, obsVars>>
  \/ ExternAttempt /\ UNCHANGED <<asmVars, sampVars, waveVars, obsVars>>
  \/ ExternExit /\ UNCHANGED <<asmVars, sampVars, waveVars, obsVars>>
  \/ CheckIterations /\ UNCHANGED <<asmVars, sampVars, waveVars, obsVars>>
  \/ Extrude /\ UNCHANGED <<asmVars, sampVars, waveVars, obsVars>>
  \/ Advance /\ UNCHANGED <<asmVars, sampVars, waveVars, obsVars>>
  \/ Finalize /\ UNCHANGED <<asmVars, sampVars, waveVars, obsVars>>
  \/ ExceptHandler /\ UNCHANGED <<asmVars, sampVars, waveVars, obsVars>>

Spec == Init /\ [][Next]_vars

AsmNext == Assemble /\ UNCHANGED <<runVars, sampVars, waveVars, obsVars>>

AsmSpecInit == RunIdle /\ AsmInit /\ SampIdle /\ WaveIdle /\ ObsIdle

AsmSpec == AsmSpecInit /\ [][AsmNext]_vars

SampNext == Sample /\ UNCHANGED <<runVars, asmVars, waveVars, obsVars>>

SampSpecInit == RunIdle /\ AsmIdle /\ SampInit /\ WaveIdle /\ ObsIdle

SampSpec == SampSpecInit /\ [][SampNext]_vars

\* one layer's offset search, each attempt observed together with the oracle's
\* answer to it
ObservedInternAttempt ==
  \E o \in AttemptOutcomes : InternAttemptWith(o) /\ last_outcome' = o
ObservedExternAttempt ==
  \E o \in AttemptOutcomes : ExternAttemptWith(o) /\ last_outcome' = o

AttemptNext ==
  \/ ObservedInternAttempt /\ UNCHANGED <<asmVars, sampVars, waveVars>>
  \/ InternExit /\ UNCHANGED <<asmVars, sampVars, waveVars, obsVars>>
  \/ ObservedExternAttempt /\ UNCHANGED <<asmVars, sampVars, waveVars>>
  \/ ExternExit /\ UNCHANGED <<asmVars, sampVars, waveVars, obsVars>>

AttemptSpecInit == SearchStart /\ AsmIdle /\ SampIdle /\ WaveIdle /\ ObsIdle

AttemptSpec == AttemptSpecInit /\ [][AttemptNext]_vars

WaveNext ==
  \/ ClampAmplitude /\ UNCHANGED <<runVars, asmVars, sampVars, obsVars>>
  \/ CalculateWavePoints /\ UNCHANGED <<runVars, asmVars, sampVars, obsVars>>

WaveSpecInit == RunIdle /\ AsmIdle /\ SampIdle /\ WaveInit /\ ObsIdle

WaveSpec == WaveSpecInit /\ [][WaveNext]_vars

----------------------------------------------------------------------------
(* Properties of the run *)

SearchPcs == {"intern", "extern", "check", "extrude"}
SlicePcs == {"create", "profile"} \cup SearchPcs
HalfStart == WallThickness \div 2

\* both directions left their loop by `break` in the current pass
BothAccepted == intern_curves = "live" /\ extern_curves = "live"

\* a direction used its 100 attempts and none was accepted
InternNeverAccepted ==
  reentries = 0 /\ intern_iteration = max_offset_iterations /\ intern_curves # "live"
ExternNeverAccepted ==
  reentries = 0 /\ extern_iteration = max_offset_iterations /\ extern_curves # "live"

\* C1: when both directions are accepted on some attempt k <= 100 (k = 100
\* included), the layer is not failed: after the test of line 331 it goes to
\* the extrusion and one_error is not set.
C1_AcceptedAttemptIsNotAFailure ==
  (searched /\ pc \in {"extrude", "advance"} /\ BothAccepted) => ~one_error

\* C2: a layer whose extrusion was discarded for its micro volume ends as a
\* skip: its search is over (no further attempt, test or extrusion) and it is
\* never marked failed (one_error, which line 333 sets together with the
\* error counter).
C2_MicroVolumeIsASkip ==
  (searched /\ slice_discards > 0) => (pc \notin SearchPcs /\ ~one_error)

\* a layer whose extrusion was discarded is not counted as an error when the
\* oracle accepts no later attempt
C2_DiscardedLayerNotFailed ==
  (searched /\ slice_discards > 0 /\ ~BothAccepted) => ~one_error

\* C3: a layer in which a direction used its 100 attempts without an accepted
\* one ends with the error counter increased by exactly 1 and no extrusion,
\* and the next step of the run is the loop test for the next slice.
C3_ExhaustedLayerCountsOnce ==
  /\ []((pc = "advance" /\ searched /\ (InternNeverAccepted \/ ExternNeverAccepted))
          => /\ extrusion_error_count = err_at_slice_start + 1
             /\ slice_extrusions = 0
             /\ slice_kept = 0)
  /\ [][(pc = "advance" /\ searched /\ (InternNeverAccepted \/ ExternNeverAccepted)
           /\ pc' # pc)
          => /\ pc' = "head"
             /\ slice_count' = slice_count + 1
             /\ extrusion_error_count' = extrusion_error_count]_vars

\* both directions exhausted in slice 0, one error counted, slice 1 about to be created
C3_Witness ==
  /\ pc = "create" /\ slice_count = 1 /\ searched
  /\ intern_iteration = max_offset_iterations /\ intern_curves # "live"
  /\ extern_iteration = max_offset_iterations /\ extern_curves # "live"
  /\ extrusion_error_count = 1

\* a measure of the search that every step of it decreases
SearchRank(p, i, e) ==
  4 * (2 * max_offset_iterations - i - e)
    + (IF IterationsExhausted(i, e)
         THEN (CASE p = "intern" -> 3 [] p = "extern" -> 2 [] p = "check" -> 1 [] OTHER -> 0)
         ELSE (CASE p = "check" -> 3 [] p = "extrude" -> 2 [] p = "intern" -> 1 [] OTHER -> 0))

\* C4: over a whole layer, re-entries included, each direction attempts at
\* most 100 offsets, and the search loop terminates: every step of it
\* decreases SearchRank, a natural number.
C4_SearchIsBounded ==
  /\ [](intern_attempts <= max_offset_iterations /\ extern_attempts <= max_offset_iterations)
  /\ []((pc \in SearchPcs) => SearchRank(pc, intern_iteration, extern_iteration) >= 0)
  /\ [][(pc \in SearchPcs /\ pc' \in SearchPcs
           /\ <<pc, intern_iteration, extern_iteration>>' # <<pc, intern_iteration, extern_iteration>>)
          => SearchRank(pc', intern_iteration', extern_iteration')
               < SearchRank(pc, intern_iteration, extern_iteration)]_vars

\* the search was entered again after a discarded extrusion and the layer
\* ended when the internal direction had used its 100 attempts
C4_Witness ==
  /\ pc = "advance" /\ searched /\ slice_discards > 0
  /\ intern_attempts = max_offset_iterations /\ one_error

\* C5: every attempt, a faulting one included, advances its iteration counter
\* and its increase by one step and never reaches the top-level handler; an
\* attempt that is not accepted (rejected regions or a fault alike) stays in
\* its loop with the half-thickness perturbed by the rule of line 302.
C5_FaultIsAFailedAttempt ==
  /\ [][(pc = "intern" /\ intern_iteration' # intern_iteration)
          => /\ intern_iteration' = intern_iteration + 1
             /\ intern_increase' = intern_increase + OffsetStep
             /\ pc' # "except"
             /\ extrusion_error_count' = extrusion_error_count
             /\ (intern_curves' # "live"
                   => /\ pc' = "intern"
                      /\ half_wall_thickness' =
                           Perturb(half_wall_thickness, intern_iteration', intern_increase'))]_vars
  /\ [][(pc = "extern" /\ extern_iteration' # extern_iteration)
          => /\ extern_iteration' = extern_iteration + 1
             /\ extern_increase' = extern_increase + OffsetStep
             /\ pc' # "except"
             /\ extrusion_error_count' = extrusion_error_count
             /\ (extern_curves' # "live"
                   => /\ pc' = "extern"
                      /\ half_wall_thickness' =
                           Perturb(half_wall_thickness, extern_iteration', extern_increase'))]_vars

\* two internal attempts whose offset call raised (the reference was never
\* assigned), the search still running with the perturbed half-thickness
C5_Witness ==
  /\ pc = "intern" /\ intern_iteration = 2 /\ intern_curves = "None"
  /\ half_wall_thickness = HalfStart + 1 - 2

\* C6: the cancellation flag acts only at the loop test: a slice that was
\* started leaves its steps only to the end of the slice (or by a fault),
\* whatever the flag, and the loop test starts no slice once the flag is set.
C6_CancelOnlyBetweenSlices ==
  /\ [][(pc \in SlicePcs /\ pc' # pc) => pc' \in SlicePcs \cup {"advance", "except"}]_vars
  /\ [][(pc = "head" /\ wasCancelled /\ pc' # pc) => pc' = "final"]_vars
  /\ [][(pc # "head" /\ pc' # pc) => pc' # "create"]_vars

\* cancelled during slice 0, which was completed with its body, and slice 1
\* of 2 was not started
C6_Witness ==
  /\ pc = "final" /\ wasCancelled /\ total_slices = 2 /\ slice_count = 1
  /\ slice_kept = 1

\* C7: when the construction plane and sketch of a slice have been created, no
\* intermediate object of an earlier slice is alive.
C7_IntermediatesReleased ==
  (pc \in {"profile", "advance", "except"}) => stale_slices = 0

\* the next attempt will call the offset oracle with half_wall_thickness
AboutToProbe ==
  \/ pc = "intern" /\ intern_iteration < max_offset_iterations
  \/ pc = "extern" /\ extern_iteration < max_offset_iterations

\* C14: every half-thickness probed during a layer, in either direction and
\* also after the search is entered again, lies within 50 steps of 0.0001 of
\* the starting value wall_thickness / 2.
C14_ProbesWithinFiftySteps ==
  AboutToProbe =>
    Abs(half_wall_thickness - HalfStart) <= (max_offset_iterations \div 2) * OffsetStep

C16_FaultAbortsRun ==
  /\ [][(pc = "except" /\ pc' # pc) =>
          /\ pc' = "done"
          /\ ui_message' = "error"
          /\ progress_dialog' # "shown"
          /\ slice_count' = slice_count /\ live' = live]_vars
  /\ [][pc = "done" =>
          /\ pc' = "done" /\ slice_count' = slice_count /\ live' = live
          /\ ui_message' = ui_message /\ progress_dialog' = progress_dialog]_vars
  /\ [][progress_dialog # "none" => progress_dialog' # "none"]_vars
  /\ [](pc = "done" => (progress_dialog # "shown" /\ ui_message # "none"))

\* a run aborted by a fault after the dialog was opened, with slices left
C16_Witness ==
  /\ pc = "done" /\ ui_message = "error"
  /\ progress_dialog = "hidden"
  /\ slice_count < total_slices

\* C20: a slice that reached the offset search leaves the search/extrusion
\* loop either with its extruded body kept and the error counter as it was
\* when the slice began, or with no body kept and the error counter one higher.
C20_BodyKeptOrErrorCounted ==
  (pc = "advance" /\ searched) =>
    \/ slice_kept = 1 /\ extrusion_error_count = err_at_slice_start
    \/ slice_kept = 0 /\ extrusion_error_count = err_at_slice_start + 1

----------------------------------------------------------------------------
(* LoopAssembler properties *)

TraversalStart(d) == IF d.is_reversed THEN d.curve.e ELSE d.curve.s
TraversalStartVertex(d) == IF d.is_reversed THEN d.curve.ev ELSE d.curve.sv
TraversalEndVertex(d) == IF d.is_reversed THEN d.curve.sv ELSE d.curve.ev

\* the same loop walked the other way round from the same endpoint
Mirror(ordered) ==
  [i \in 1..Len(ordered) |->
     [curve |-> ordered[Len(ordered) + 1 - i].curve,
      is_reversed |-> ~ordered[Len(ordered) + 1 - i].is_reversed]]

SameOrderedLoop(a, b) ==
  /\ Len(a) = Len(b)
  /\ Len(a) > 0 => TraversalStart(a[1]) = TraversalStart(b[1])
  /\ a = b \/ a = Mirror(b)

\* C8: for every closed loop and every permutation of the order in which its
\* fragments are listed, get_ordered_curves chooses the same start endpoint and
\* returns the same cyclic sequence of fragments (up to reflection), also when
\* several endpoints have Y coordinates closer together than the tolerance.
C8_InputOrderIndependent ==
  (apc = "ordered" /\ gap_vertex = 0) =>
    \A f \in Perms(Len(profile_curves)) :
      SameOrderedLoop(GetOrderedCurves(Permute(profile_curves, f)),
                      ordered_curves_data)

BrokenTriangle == apc = "ordered" /\ Len(profile_curves) = 3 /\ gap_vertex # 0

TraversalEnd(d) == IF d.is_reversed THEN d.curve.s ELSE d.curve.e
Cross(p, q) == p[1] * q[2] - p[2] * q[1]

\* twice the signed area swept by the traversal: positive when the loop is
\* walked counter-clockwise, negative when clockwise.  The normal of lines
\* 591-592, tangent x plane normal, points to the right of the traversal:
\* outside for one sign, inside for the other.
SignedArea2(ordered) ==
  SumOver([i \in 1..Len(ordered) |->
             Cross(TraversalStart(ordered[i]), TraversalEnd(ordered[i]))],
          1..Len(ordered))
RotationalSense(ordered) ==
  IF SignedArea2(ordered) > 0 THEN 1 ELSE IF SignedArea2(ordered) < 0 THEN 0 - 1 ELSE 0

\* C12: the traversal chosen by get_ordered_curves for a closed loop has the
\* same rotational sense for every input order of its fragments (so that the
\* normal tangent x plane_normal is on the same side, the outside, for all of
\* them), whichever of the two fragments meeting at the lowest endpoint is
\* listed first.
C12_SameRotationalSense ==
  (apc = "ordered" /\ gap_vertex = 0) =>
    \A f \in Perms(Len(profile_curves)) :
      RotationalSense(GetOrderedCurves(Permute(profile_curves, f)))
        = RotationalSense(ordered_curves_data)

\* the input curves that are not among the first n entries of the output
Pool(ordered, n) ==
  {k \in 1..Len(profile_curves) :
     \A i \in 1..n : ordered[i].curve.id # profile_curves[k].id}

\* C17: in every output of two or more fragments, the traversal end of entry i
\* lies within the connection tolerance of the traversal start of entry i + 1,
\* entry i + 1 is the curve of the remaining pool with the nearest endpoint, and
\* no input fragment appears more than once.
C17_ChainIsContinuous ==
  (apc = "ordered" /\ Len(ordered_curves_data) >= 2) =>
    LET ordered == ordered_curves_data
    IN /\ \A i \in 1..(Len(ordered) - 1) :
            LET trailing == TraversalEnd(ordered[i])
                joint == Dist2(trailing, TraversalStart(ordered[i + 1]))
            IN /\ joint < connection_tolerance * connection_tolerance
               /\ \A k \in Pool(ordered, i) :
                    /\ joint <= Dist2(trailing, profile_curves[k].s)
                    /\ joint <= Dist2(trailing, profile_curves[k].e)
       /\ \A i, j \in 1..Len(ordered) :
            ordered[i].curve.id = ordered[j].curve.id => i = j
       /\ \A i \in 1..Len(ordered) :
            \E k \in 1..Len(profile_curves) : ordered[i].curve = profile_curves[k]

\* a chain in which, at some joint, another endpoint of the pool also lies
\* within the tolerance of the trailing end, and a reversed fragment
C17_Witness ==
  /\ apc = "ordered" /\ Len(ordered_curves_data) = 3
  /\ \E i \in 1..3 : ordered_curves_data[i].is_reversed
  /\ \E i \in 1..2 : \E k \in Pool(ordered_curves_data, i) :
       LET trailing == TraversalEnd(ordered_curves_data[i])
           near == Dist2(trailing, profile_curves[k].s)
       IN /\ near < connection_tolerance * connection_tolerance
          /\ Dist2(trailing, TraversalStart(ordered_curves_data[i + 1])) < near

----------------------------------------------------------------------------
(* BoundarySampler properties *)

AllValid == \A k \in 1..Len(sample_input) : sample_input[k].isValid

\* C10: for a chain of valid fragments of positive length the perimeter_pos
\* values are strictly increasing over the whole sample sequence, across
\* fragment boundaries and for reversed fragments, and the last sample's
\* perimeter_pos equals total_perimeter.
C10_PerimeterPosIncreasing ==
  (spc = "sampled" /\ AllValid) =>
    LET geometry == layer_data.geometry
    IN /\ Len(geometry) > 0
       /\ \A n \in 1..(Len(geometry) - 1) :
            RatLess(geometry[n].perimeter_pos, geometry[n + 1].perimeter_pos)
       /\ RatEq(geometry[Len(geometry)].perimeter_pos,
                <<layer_data.total_perimeter, 1>>)

\* a sampled chain of several fragments, one of them reversed, with samples
\* on both sides of a fragment boundary
C10_Witness ==
  /\ spc = "sampled" /\ AllValid
  /\ Len(sample_input) > 1
  /\ \E k \in 1..Len(sample_input) : sample_input[k].is_reversed
  /\ \E n \in 1..(Len(layer_data.geometry) - 1) :
       layer_data.geometry[n].curve_index # layer_data.geometry[n + 1].curve_index

\* C11: every sample is taken at a fraction f with 0 <= f < 1 of its fragment,
\* so every perimeter_pos lies in [0, total_perimeter) and the closing vertex of
\* the loop (position total_perimeter, the point of position 0) is not sampled
\* a second time; also for a single-fragment loop.
C11_ClosingVertexSampledOnce ==
  (spc = "sampled" /\ AllValid) =>
    \A n \in 1..Len(layer_data.geometry) :
      LET sample == layer_data.geometry[n]
      IN /\ RatLess(<<0 - 1, 1>>, sample.fraction)
         /\ RatLess(sample.fraction, <<1, 1>>)
         /\ RatLess(<<0 - 1, 1>>, sample.perimeter_pos)
         /\ RatLess(sample.perimeter_pos, <<layer_data.total_perimeter, 1>>)


\* C18: for every number of fragments and every split of the perimeter among
\* them, the samples taken around the loop are more than 2 per wave period:
\* their total exceeds 2 * wave_frequency.
C18_MoreThanTwoSamplesPerWave ==
  (spc = "sampled" /\ AllValid) => Len(layer_data.geometry) > 2 * wave_frequency

----------------------------------------------------------------------------
(* Amplitude clamp and wave displacer properties *)

\* C13: for frequency >= 1, wall_thickness >= 0 and perimeter > 0 the clamp
\* yields final_amplitude <= requested amplitude and
\* 2 * final_amplitude + wall_thickness <= 0.75 * perimeter / frequency;
\* for perimeter 100, frequency 10, amplitude 2, thickness 0.8 it yields 2.
C13_ClampWithinWavelength ==
  (wpc \in {"clamped", "displaced"}) =>
    /\ RatLeq(final_amplitude, <<input_values.wave_amplitude, 1>>)
    /\ RatLeq(<<2 * final_amplitude[1] + input_values.wall_thickness * final_amplitude[2],
                final_amplitude[2]>>,
              <<3 * max_perimeter, 4 * input_values.wave_frequency>>)
    /\ (/\ max_perimeter = 10000 /\ input_values.wave_frequency = 10
        /\ input_values.wave_amplitude = 200 /\ input_values.wall_thickness = 80)
         => RatEq(final_amplitude, <<200, 1>>)

\* the clamp is active on a wall of positive thickness
C13_Witness ==
  /\ wpc = "clamped"
  /\ input_values.wall_thickness > 0
  /\ RatLess(final_amplitude, <<input_values.wave_amplitude, 1>>)

\* the displacement of sample n: what was added to its point, along its normal
\* and across it
MovedAlong(n) ==
  LET item == wave_layer_data.geometry[n]
      moved == [c \in 1..2 |-> <<processed_points[n][c][1]
                                   - item.point[c] * processed_points[n][c][2],
                                 processed_points[n][c][2]>>]
      Times(p, k) == <<p[1] * k, p[2]>>
  IN [along |-> RatAdd(Times(moved[1], item.normal[1]), Times(moved[2], item.normal[2])),
      across |-> RatAdd(Times(moved[1], item.normal[2]),
                        Times(moved[2], 0 - item.normal[1]))]

\* C19: calculate_wave_points_cpu returns one point per input sample, in the
\* same order, each the sample's position moved along its unit normal by a
\* displacement of magnitude at most final_amplitude, for every final_amplitude
\* the clamp hands to it and every slice index and phase shift.
C19_DisplacementWithinAmplitude ==
  (wpc = "displaced") =>
    /\ Len(processed_points) = Len(wave_layer_data.geometry)
    /\ \A n \in 1..Len(processed_points) :
         /\ MovedAlong(n).across[1] = 0
         /\ RatLeq(RatAbs(MovedAlong(n).along), final_amplitude)

\* C21: the final_amplitude handed to the sampler and the wave displacer is
\* never negative, for every accepted input (frequency 1..200, wall thickness
\* 0..3.2, requested amplitude 0..10) and every positive perimeter, also when
\* half the wavelength is smaller than the wall thickness.
C21_FinalAmplitudeNotNegative ==
  (wpc \in {"clamped", "displaced"}) => RatLeq(<<0, 1>>, final_amplitude)

================================================================
